---- MODULE Spec2Model ----
(***************************************************************************)
(* Model of sage.game_theory.matching_game: the MatchingGame registry of   *)
(* suitors and reviewers (_Player objects) and its solve() operation.      *)
(*                                                                         *)
(* Names are integers (the class docstring: "works for numbers too"); the  *)
(* one-letter names of the docstring example are their code points, so     *)
(* that list.sort() on a list of names orders them as Python orders the    *)
(* strings.                                                                *)
(*                                                                         *)
(* _Player defines __eq__ and __hash__ but no ordering.  list.sort() on a  *)
(* list of two or more _Player objects therefore depends on the            *)
(* interpreter: Python 2 orders the (old-style) instances by their memory  *)
(* address, Python 3 raises TypeError.  The variable cmp holds which of    *)
(* the two the running interpreter does; the addresses are the field addr  *)
(* of every player, an arbitrary injection chosen at construction.         *)
(*                                                                         *)
(* Spec starts from a registry constructed from two dictionaries and       *)
(* solves it, one loop iteration at a time; SpecExample starts from the    *)
(* game of the class docstring and solves it once, the call as one step;   *)
(* SpecApi starts before the constructor is called and also adds agents,   *)
(* assigns preference lists and asks for the result mapping.               *)
(***************************************************************************)
EXTENDS Integers, Sequences, FiniteSets, TLC

\* ----------------------------------------------------------------- bounds
\* largest number of agents on one side in the enumerated registries
MaxN == 2
\* largest number of solve() calls on one registry
MaxSolves == 3
\* largest number of keys of a dictionary given to a constructor that is
\* followed by calls adding agents
MaxNew == 1

\* ------------------------------------------------- names of the docstring
I == 73
J == 74
K == 75
L == 76
M == 77
A == 65
B == 66
C == 67
D == 68

\* the entry of an unset preference list: [-1 for i in range(len_pref)]
Placeholder == -1

\* _Player.partner of a player without partner: the object False
Unassigned == [type |-> "none", name |-> 0]

\* a reference to a _Player object, as far as the program looks at it:
\* __repr__, __eq__ and __hash__ read the name only
Ref(p) == [type |-> p.type, name |-> p.name]

\* pref refers to a list object, and several players may refer to one
\* object: the field lid is the number of the object, two players hold one
\* list object when their lid are equal.  The objects are numbered after
\* the players: the object whose first holder (by this number) is the
\* suitor called n is 2n, the one of the reviewer called n is 2n + 1
ListId(player_type, name) == 2 * name + (IF player_type = "suitor" THEN 0 ELSE 1)

\* _Player.__init__(name, player_type, len_pref); addr is id(self).  The
\* list made here is held by the new player only
Player(name, player_type, len_pref, addr) ==
    [name |-> name, type |-> player_type,
     pref |-> [i \in 1..len_pref |-> Placeholder],
     lid |-> ListId(player_type, name),
     partner |-> Unassigned, addr |-> addr]

\* the list object lid has become list: every player of players that holds
\* it reads the new list
Store(players, lid, list) ==
    [i \in 1..Len(players) |->
        IF players[i].lid = lid THEN [players[i] EXCEPT !.pref = list]
        ELSE players[i]]

\* the number of the list object lid when only players hold it: that of
\* the first of them that does
Renamed(players, lid) ==
    LET ids == {ListId(players[i].type, players[i].name) :
                    i \in {h \in 1..Len(players) : players[h].lid = lid}}
    IN  CHOOSE m \in ids : \A n \in ids : m <= n

\* ---------------------------------------------------------- Python lists
\* list.index(x): the first position whose entry equals x, 0 when there is
\* none (Python raises ValueError there)
IndexFromEnd(list, x) ==
    IF \E i \in 1..Len(list) : list[i] = x
    THEN CHOOSE i \in 1..Len(list) :
            list[Len(list) + 1 - i] = x
            /\ \A k \in 1..(Len(list) - i) : list[k] # x
    ELSE 0
Index(list, x) ==
    IF \E i \in 1..Len(list) : list[i] = x
    THEN CHOOSE i \in 1..Len(list) :
            list[i] = x /\ \A k \in 1..(i - 1) : list[k] # x
    ELSE 0

\* list.remove(x): the list without the first entry equal to x
RemoveNothing(list, x) == list
Remove(list, x) ==
    LET i == Index(list, x)
    IN  IF i = 0 THEN list
        ELSE [k \in 1..(Len(list) - 1) |-> IF k < i THEN list[k] ELSE list[k + 1]]

\* insertion of x into an ascending list of integers, after its equals
RECURSIVE Insert(_, _)
Insert(list, x) ==
    IF list = <<>> THEN <<x>>
    ELSE IF x < Head(list) THEN <<x>> \o list
    ELSE <<Head(list)>> \o Insert(Tail(list), x)

RECURSIVE SortFrom(_, _)
SortFrom(done, rest) ==
    IF rest = <<>> THEN done ELSE SortFrom(Insert(done, Head(rest)), Tail(rest))

\* a name is a one-letter string, held as its code point, or a number (the
\* name of a player added without one, a placeholder)
IsString(x) == x >= A

\* the list holds a string and a number
Mixed(list) ==
    \E i, k \in 1..Len(list) : IsString(list[i]) /\ ~IsString(list[k])

\* list.sort() on a list of names: whether it raises TypeError, and the
\* list it leaves.  Python 2 orders every number before every string, as
\* the code points do; Python 3 cannot order a string and a number and
\* raises when the list holds both, leaving the list as it was (true of
\* lists of up to three entries, where the first pass over the list
\* raises before anything is moved).  Otherwise the list is sorted
\* ascending, in place
ListSort(list, mode) ==
    IF mode = "unorderable" /\ Mixed(list)
    THEN [raise |-> TRUE, list |-> list]
    ELSE [raise |-> FALSE, list |-> SortFrom(<<>>, list)]

\* insertion of player p into a list of players ascending by address
RECURSIVE InsertByAddr(_, _)
InsertByAddr(list, p) ==
    IF list = <<>> THEN <<p>>
    ELSE IF p.addr < Head(list).addr THEN <<p>> \o list
    ELSE <<Head(list)>> \o InsertByAddr(Tail(list), p)

RECURSIVE SortByAddrFrom(_, _)
SortByAddrFrom(done, rest) ==
    IF rest = <<>> THEN done
    ELSE SortByAddrFrom(InsertByAddr(done, Head(rest)), Tail(rest))

\* list.sort() on a list of _Player objects under interpreter mode: no
\* comparison is made on fewer than two objects; otherwise Python 3 raises
\* TypeError on the first comparison and leaves the list as it was, and
\* Python 2 orders the objects by address
PlayersSort(list, mode) ==
    IF Len(list) < 2 THEN [raise |-> FALSE, list |-> list]
    ELSE IF mode = "unorderable" THEN [raise |-> TRUE, list |-> list]
    ELSE [raise |-> FALSE, list |-> SortByAddrFrom(<<>>, list)]

\* ------------------------------------------------------------- registry
\* a registry is [suitors |-> self.suitors, reviewers |-> self.reviewers],
\* two lists of players

\* self.suitors = [] and self.reviewers = [] in __init__
EmptyRegistry == [suitors |-> <<>>, reviewers |-> <<>>]

\* add_suitor(name): the new player is appended and every reviewer's
\* preference list is reset to placeholders, one per suitor: a new list
\* object for each reviewer.  The suitors keep their list objects; one
\* that a reviewer held too is now held by suitors only
add_suitor_short(reg, name, addr) ==
    LET new_suitor == Player(name, "suitor", Len(reg.reviewers), addr)
    IN  [suitors |->
             Append([i \in 1..Len(reg.suitors) |->
                        [reg.suitors[i] EXCEPT
                            !.lid = Renamed(reg.suitors, reg.suitors[i].lid)]],
                    new_suitor),
         reviewers |-> [k \in 1..Len(reg.reviewers) |->
             [reg.reviewers[k] EXCEPT
                 !.pref = [i \in 1..Len(reg.suitors) |-> Placeholder],
                 !.lid = ListId("reviewer", reg.reviewers[k].name)]]]
add_suitor(reg, name, addr) ==
    LET new_suitor == Player(name, "suitor", Len(reg.reviewers), addr)
        suitors1 ==
            Append([i \in 1..Len(reg.suitors) |->
                       [reg.suitors[i] EXCEPT
                           !.lid = Renamed(reg.suitors, reg.suitors[i].lid)]],
                   new_suitor)
    IN  [suitors |-> suitors1,
         reviewers |-> [k \in 1..Len(reg.reviewers) |->
             [reg.reviewers[k] EXCEPT
                 !.pref = [i \in 1..Len(suitors1) |-> Placeholder],
                 !.lid = ListId("reviewer", reg.reviewers[k].name)]]]

\* add_reviewer(name), symmetrically
add_reviewer(reg, name, addr) ==
    LET new_reviewer == Player(name, "reviewer", Len(reg.suitors), addr)
        reviewers1 ==
            Append([k \in 1..Len(reg.reviewers) |->
                       [reg.reviewers[k] EXCEPT
                           !.lid = Renamed(reg.reviewers, reg.reviewers[k].lid)]],
                   new_reviewer)
    IN  [suitors |-> [k \in 1..Len(reg.suitors) |->
             [reg.suitors[k] EXCEPT
                 !.pref = [i \in 1..Len(reviewers1) |-> Placeholder],
                 !.lid = ListId("suitor", reg.suitors[k].name)]],
         reviewers |-> reviewers1]

RECURSIVE AddSuitors(_, _, _, _)
AddSuitors(reg, keys, addrs, i) ==
    IF i > Len(keys) THEN reg
    ELSE AddSuitors(add_suitor(reg, keys[i], addrs[i]), keys, addrs, i + 1)

RECURSIVE AddReviewers(_, _, _, _)
AddReviewers(reg, keys, addrs, i) ==
    IF i > Len(keys) THEN reg
    ELSE AddReviewers(add_reviewer(reg, keys[i], addrs[i]), keys, addrs, i + 1)

\* MatchingGame([suitor_dict, reviewer_dict]): __init__ and _dict_game.
\* skeys and rkeys are the keys of the two dictionaries in iteration order,
\* sdict and rdict map each key to its list, objs maps the number of each
\* key's player to the number of the list object the key maps to (one
\* object may be the value of several keys, of either dictionary), saddr
\* and raddr give the address of each created object
dict_game_early(skeys, sdict, rkeys, rdict, objs, saddr, raddr) ==
    LET empty == [suitors |-> <<>>, reviewers |-> <<>>]
        first == AddSuitors(empty, skeys, saddr, 1)
        given1 == [suitors |-> [i \in 1..Len(first.suitors) |->
                       [first.suitors[i] EXCEPT
                           !.pref = sdict[first.suitors[i].name],
                           !.lid = objs[ListId("suitor", first.suitors[i].name)]]],
                   reviewers |-> first.reviewers]
        added == AddReviewers(given1, rkeys, raddr, 1)
    IN  [suitors |-> added.suitors,
         reviewers |-> [k \in 1..Len(added.reviewers) |->
             [added.reviewers[k] EXCEPT
                 !.pref = rdict[added.reviewers[k].name],
                 !.lid = objs[ListId("reviewer", added.reviewers[k].name)]]]]
dict_game(skeys, sdict, rkeys, rdict, objs, saddr, raddr) ==
    LET empty == [suitors |-> <<>>, reviewers |-> <<>>]
        added == AddReviewers(AddSuitors(empty, skeys, saddr, 1), rkeys, raddr, 1)
    IN  [suitors |-> [i \in 1..Len(added.suitors) |->
             [added.suitors[i] EXCEPT
                 !.pref = sdict[added.suitors[i].name],
                 !.lid = objs[ListId("suitor", added.suitors[i].name)]]],
         reviewers |-> [k \in 1..Len(added.reviewers) |->
             [added.reviewers[k] EXCEPT
                 !.pref = rdict[added.reviewers[k].name],
                 !.lid = objs[ListId("reviewer", added.reviewers[k].name)]]]]

\* the name of a player added without one: if name is False: name =
\* len(self.suitors), respectively len(self.reviewers)
DefaultName(players) == Len(players)

\* the argument of MatchingGame(generator): a Sage Integer, or a list of two
\* dictionaries (their keys in iteration order, the list of each key and
\* the list object that holds it)
IntegerGenerator(n) == [type |-> "Integer", n |-> n]
DictsGenerator(skeys, sdict, rkeys, rdict, objs) ==
    [type |-> "dicts", skeys |-> skeys, sdict |-> sdict,
     rkeys |-> rkeys, rdict |-> rdict, objs |-> objs]

\* for i in range(generator): self.add_suitor(); self.add_reviewer()
RECURSIVE IntegerAdds(_, _, _, _, _)
IntegerAdds(reg, i, n, saddr, raddr) ==
    IF i > n THEN reg
    ELSE LET reg1 == add_suitor(reg, DefaultName(reg.suitors), saddr[i])
             reg2 == add_reviewer(reg1, DefaultName(reg1.reviewers), raddr[i])
         IN  IntegerAdds(reg2, i + 1, n, saddr, raddr)

\* MatchingGame.__init__(generator): the exception it raises ("none" when
\* the object is constructed) and the registry it has built by then.  The
\* test of generator[0] is an if of its own, not an elif of the Integer
\* test: with an Integer it is reached after the agents were added, and
\* subscripting an Integer raises TypeError
init(generator, saddr, raddr) ==
    IF generator.type = "Integer"
    THEN [raise |-> "TypeError",
          reg |-> IntegerAdds(EmptyRegistry, 1, generator.n, saddr, raddr)]
    ELSE [raise |-> "none",
          reg |-> dict_game(generator.skeys, generator.sdict, generator.rkeys,
                            generator.rdict, generator.objs, saddr, raddr)]

\* ------------------------------------------------------- _is_complete
\* for suitor in self.suitors:
\*     if suitor.pref.sort() != self.reviewers.sort(): raise ValueError
\* list.sort() sorts in place and returns None, so the comparison is
\* None != None and the ValueError is never raised; what the loop does is
\* sort the suitor's list and the reviewers collection, and either sort
\* may raise TypeError
\* The list that is sorted is an object: every player that holds it, of
\* either side, reads it sorted
RECURSIVE CheckSuitors(_, _, _)
CheckSuitors(reg, i, mode) ==
    IF i > Len(reg.suitors) THEN [raise |-> "none", reg |-> reg]
    ELSE LET pref == ListSort(reg.suitors[i].pref, mode)
             suitors1 == Store(reg.suitors, reg.suitors[i].lid, pref.list)
             reviewers1 == Store(reg.reviewers, reg.suitors[i].lid, pref.list)
             sorted == PlayersSort(reviewers1, mode)
         IN  IF pref.raise THEN [raise |-> "TypeError", reg |-> reg]
             ELSE IF sorted.raise
             THEN [raise |-> "TypeError",
                   reg |-> [suitors |-> suitors1, reviewers |-> reviewers1]]
             ELSE CheckSuitors([suitors |-> suitors1, reviewers |-> sorted.list],
                               i + 1, mode)

\* for reviewer in self.reviewers:
\*     if reviewer.pref.sort() != self.suitors.sort(): raise ValueError
RECURSIVE CheckReviewers(_, _, _)
CheckReviewers(reg, k, mode) ==
    IF k > Len(reg.reviewers) THEN [raise |-> "none", reg |-> reg]
    ELSE LET pref == ListSort(reg.reviewers[k].pref, mode)
             suitors1 == Store(reg.suitors, reg.reviewers[k].lid, pref.list)
             reviewers1 == Store(reg.reviewers, reg.reviewers[k].lid, pref.list)
             sorted == PlayersSort(suitors1, mode)
         IN  IF pref.raise THEN [raise |-> "TypeError", reg |-> reg]
             ELSE IF sorted.raise
             THEN [raise |-> "TypeError",
                   reg |-> [suitors |-> suitors1, reviewers |-> reviewers1]]
             ELSE CheckReviewers([suitors |-> sorted.list, reviewers |-> reviewers1],
                                 k + 1, mode)

\* _is_complete(): the exception it raises ("none" when it returns) and the
\* registry it leaves
is_complete_nolen(reg, mode) ==
    LET first == CheckSuitors(reg, 1, mode)
    IN  IF first.raise # "none" THEN first ELSE CheckReviewers(first.reg, 1, mode)
is_complete(reg, mode) ==
    IF Len(reg.suitors) # Len(reg.reviewers)
    THEN [raise |-> "ValueError", reg |-> reg]
    ELSE LET first == CheckSuitors(reg, 1, mode)
         IN  IF first.raise # "none" THEN first
             ELSE CheckReviewers(first.reg, 1, mode)

\* ---------------------------------------------------------- _is_sovled
\* all(s.partner for s in self.suitors) and all(r.partner for r in
\* self.reviewers): False is falsy, a _Player object is truthy
is_sovled_suitors(reg) ==
    \A i \in 1..Len(reg.suitors) : reg.suitors[i].partner # Unassigned
is_sovled(reg) ==
    /\ \A i \in 1..Len(reg.suitors) : reg.suitors[i].partner # Unassigned
    /\ \A k \in 1..Len(reg.reviewers) : reg.reviewers[k].partner # Unassigned

\* ----------------------------------------------------------- _sol_dict
\* a dict is the list of its items [key, val] in insertion order; a key is
\* a _Player, hashed by its name and equal to another of the same repr
DictSet(d, key, val) ==
    IF \E i \in 1..Len(d) : d[i].key.name = key.name
    THEN [i \in 1..Len(d) |->
             IF d[i].key.name = key.name THEN [d[i] EXCEPT !.val = val] ELSE d[i]]
    ELSE Append(d, [key |-> key, val |-> val])

RECURSIVE SolDictFrom(_, _, _)
SolDictFrom(d, players, i) ==
    IF i > Len(players) THEN d
    ELSE SolDictFrom(DictSet(d, Ref(players[i]), <<players[i].partner>>),
                     players, i + 1)

\* _sol_dict() once _is_sovled() has passed
sol_dict(reg) == SolDictFrom(SolDictFrom(<<>>, reg.suitors, 1), reg.reviewers, 1)

\* --------------------------------------------------- the proposal loop
\* deepcopy of one player, then s.matched = False (lines 178-187).  The
\* partner of the copy, when there is one, is itself a copy that belongs to
\* no collection: plive says whether partner refers to a player of the
\* working collections.  One deepcopy call copies a list object once: the
\* copies of a collection hold one list object where the originals did
\* (lid); the two collections are copied by two calls and share none
WorkCopy(p) ==
    [name |-> p.name, type |-> p.type, pref |-> p.pref, lid |-> p.lid,
     partner |-> p.partner, matched |-> FALSE, plive |-> FALSE]

DeepCopy(players) == [i \in 1..Len(players) |-> WorkCopy(players[i])]

\* the positions of [s for s in suitors if s.partner is False]
Unmatched(ws) == {i \in 1..Len(ws) : ws[i].partner = Unassigned}

\* next((x for x in reviewers if x.name == name), None): its position, 0
\* for None
Lookup(wr, name) ==
    IF \E k \in 1..Len(wr) : wr[k].name = name
    THEN CHOOSE k \in 1..Len(wr) :
            wr[k].name = name /\ \A h \in 1..(k - 1) : wr[h].name # name
    ELSE 0

\* old_s.partner = False, old_s being the object r.partner: a player of the
\* working suitors when r got its partner in this loop, a detached copy
\* otherwise
ReleaseNothing(ws, r) == ws
Release(ws, r) ==
    IF r.plive
    THEN [i \in 1..Len(ws) |->
             IF ws[i].name = r.partner.name
             THEN [ws[i] EXCEPT !.partner = Unassigned] ELSE ws[i]]
    ELSE ws

\* one iteration of the while loop (lines 190-201) on the working
\* collections: the exception it raises ("none" when it completes), the
\* branch it took and the collections it leaves.  s.pref.remove(r)
\* shortens a list object: every proposer that holds it reads it shortened
Propose(ws, wr) ==
    LET si == CHOOSE i \in Unmatched(ws) : \A h \in Unmatched(ws) : i <= h
        s == ws[si]
        same == [raise |-> "none", branch |-> "none", suitors |-> ws, reviewers |-> wr]
    IN  IF s.pref = <<>> THEN [same EXCEPT !.raise = "IndexError"]
        ELSE
        LET ri == Lookup(wr, s.pref[1])
        IN  IF ri = 0 THEN [same EXCEPT !.raise = "AttributeError"]
            ELSE
            LET r == wr[ri]
                paired ==
                    [same EXCEPT
                        !.suitors = [ws EXCEPT ![si].partner = Ref(r),
                                               ![si].plive = TRUE],
                        !.reviewers = [wr EXCEPT ![ri].partner = Ref(s),
                                                 ![ri].plive = TRUE]]
            IN  IF r.partner = Unassigned
                THEN [paired EXCEPT !.branch = "accept"]
                ELSE IF Index(r.pref, s.name) = 0 \/ Index(r.pref, r.partner.name) = 0
                THEN [same EXCEPT !.raise = "ValueError"]
                ELSE IF Index(r.pref, s.name) < Index(r.pref, r.partner.name)
                THEN [raise |-> "none", branch |-> "bump",
                      suitors |-> [Release(ws, r) EXCEPT ![si].partner = Ref(r),
                                                         ![si].plive = TRUE],
                      reviewers |-> [wr EXCEPT ![ri].partner = Ref(s),
                                               ![ri].plive = TRUE]]
                ELSE [same EXCEPT
                        !.branch = "reject",
                        !.suitors = Store(ws, s.lid, Remove(s.pref, r.name))]

\* for i, j in zip(originals, copies): i.partner = j.partner
Commit(originals, copies) ==
    [i \in 1..Len(originals) |->
        IF i <= Len(copies)
        THEN [originals[i] EXCEPT !.partner = copies[i].partner]
        ELSE originals[i]]

\* ---------------------------------------------------------------- state
VARIABLES
    suitors,    \* self.suitors
    reviewers,  \* self.reviewers
    cmp,        \* "address" or "unorderable": how the interpreter orders _Player
    pc,         \* "idle", or "loop" inside solve
    invert,     \* the argument of the running or last solve
    wsuitors,   \* the local suitors of solve
    wreviewers, \* the local reviewers of solve
    ret,        \* how the last solve ended: [kind, dict]
    iters,      \* iterations of the while loop in the running or last solve
    given,      \* the registry as constructed from the caller's dictionaries
    pre,        \* the registry when the running or last solve was called
    prev,       \* how the solve before the last ended, and what it was called on
    last,       \* the branch of the last loop iteration and the lists it read
    solves,     \* number of solve calls made
    call        \* the last call: [op, arg, old, out], old the registry it was
                \* made on, out what _sol_dict or bi_partite answered

vars == <<suitors, reviewers, cmp, pc, invert, wsuitors, wreviewers, ret,
          iters, given, pre, prev, last, solves, call>>

Registry == [suitors |-> suitors, reviewers |-> reviewers]

NoRet == [kind |-> "none", dict |-> <<>>]
NoPrev == [kind |-> "none", dict |-> <<>>, invert |-> FALSE, solved |-> FALSE]
NoLast == [branch |-> "none", before |-> <<>>, after |-> <<>>]

\* ----------------------------------------------------------------- inputs
SuitorKeys == <<J, K, L, M>>
ReviewerKeys == <<A, B, C, D>>

Range(f) == {f[i] : i \in DOMAIN f}

\* the orderings of the set S, as lists
PermSeqs(S) ==
    {f \in [1..Cardinality(S) -> S] : \A i, k \in DOMAIN f : i # k => f[i] # f[k]}

\* the lists a caller may give the agent self over the opposite side opp: a
\* strict order of the whole side, the placeholders, a list naming an agent
\* that is not on the opposite side, a list naming one agent twice and
\* another not at all
PrefChoices(opp, self) ==
    PermSeqs(Range(opp))
    \cup {[i \in 1..Len(opp) |-> Placeholder]}
    \cup (IF Len(opp) >= 1 THEN {[opp EXCEPT ![1] = self]} ELSE {})
    \cup (IF Len(opp) >= 2 THEN {[opp EXCEPT ![Len(opp)] = opp[1]]} ELSE {})

Dicts(keys, opp) ==
    {d \in [Range(keys) -> UNION {PrefChoices(opp, k) : k \in Range(keys)}] :
        \A k \in Range(keys) : d[k] \in PrefChoices(opp, k)}

\* the lists the two dictionaries give, each with the number of the
\* player it is given to
GivenLists(skeys, sdict, rkeys, rdict) ==
    {<<ListId("suitor", k), sdict[k]>> : k \in Range(skeys)}
    \cup {<<ListId("reviewer", k), rdict[k]>> : k \in Range(rkeys)}

\* every list is an object of its own
OwnLists(skeys, rkeys) ==
    [x \in {ListId("suitor", k) : k \in Range(skeys)}
            \cup {ListId("reviewer", k) : k \in Range(rkeys)} |-> x]

\* one list object for the suitors and one for the reviewers
SideLists(skeys, rkeys) ==
    LET S == {ListId("suitor", k) : k \in Range(skeys)}
        R == {ListId("reviewer", k) : k \in Range(rkeys)}
        Least(T) == CHOOSE m \in T : \A n \in T : m <= n
    IN  [x \in S \cup R |-> IF x \in S THEN Least(S) ELSE Least(R)]

\* the ways in which the given lists may be list objects: players given
\* one object are given the same list, and the object has the number of
\* the first of them
Sharings(lists) ==
    {objs \in [{p[1] : p \in lists} -> {p[1] : p \in lists}] :
        \A p \in lists :
            /\ objs[p[1]] <= p[1]
            /\ objs[objs[p[1]]] = objs[p[1]]
            /\ <<objs[p[1]], p[2]>> \in lists}

\* the dictionaries of the class docstring (lines 14-21)
suitr_pref == (J :> <<A, D, C, B>>) @@ (K :> <<A, B, C, D>>)
           @@ (L :> <<B, D, C, A>>) @@ (M :> <<C, A, B, D>>)
reviewr_pref == (A :> <<L, J, K, M>>) @@ (B :> <<J, M, L, K>>)
             @@ (C :> <<K, M, L, J>>) @@ (D :> <<M, K, J, L>>)

InitWith(reg, mode, arg) ==
    /\ suitors = reg.suitors
    /\ reviewers = reg.reviewers
    /\ given = reg
    /\ pre = reg
    /\ cmp = mode
    /\ pc = "idle"
    /\ invert = FALSE
    /\ wsuitors = <<>>
    /\ wreviewers = <<>>
    /\ ret = NoRet
    /\ iters = 0
    /\ prev = NoPrev
    /\ last = NoLast
    /\ solves = 0
    /\ call = [op |-> "init", arg |-> arg, old |-> EmptyRegistry, out |-> NoRet]

\* the orders in which a dictionary of the first n of keys may iterate:
\* the hash order of Python 2 (which the hash seed changes), the order in
\* which the caller inserted the keys in Python 3
KeyOrders(keys, n) == PermSeqs(Range(SubSeq(keys, 1, n)))

InitSmall ==
    \E ns \in 0..MaxN, nr \in 0..MaxN :
        \E skeys \in KeyOrders(SuitorKeys, ns), rkeys \in KeyOrders(ReviewerKeys, nr) :
            \E sdict \in Dicts(skeys, rkeys), rdict \in Dicts(rkeys, skeys) :
                \E objs \in Sharings(GivenLists(skeys, sdict, rkeys, rdict)) :
                    \E saddr \in PermSeqs(1..ns), raddr \in PermSeqs(1..nr),
                       mode \in {"address", "unorderable"} :
                        InitWith(dict_game(skeys, sdict, rkeys, rdict, objs,
                                           saddr, raddr),
                                 mode,
                                 DictsGenerator(skeys, sdict, rkeys, rdict, objs))

Init == InitSmall

\* --------------------------------------------------------------- actions
\* solve(invert) up to the while loop: _is_complete(), the deep copies
SolveBegin(inv) ==
    /\ pc = "idle"
    /\ solves < MaxSolves
    /\ LET checked == is_complete(Registry, cmp)
       IN  /\ suitors' = checked.reg.suitors
           /\ reviewers' = checked.reg.reviewers
           /\ IF checked.raise # "none"
              THEN /\ pc' = "idle"
                   /\ ret' = [kind |-> checked.raise, dict |-> <<>>]
                   /\ wsuitors' = <<>>
                   /\ wreviewers' = <<>>
              ELSE /\ pc' = "loop"
                   /\ ret' = NoRet
                   /\ wsuitors' = DeepCopy(IF inv THEN checked.reg.reviewers
                                                  ELSE checked.reg.suitors)
                   /\ wreviewers' = DeepCopy(IF inv THEN checked.reg.suitors
                                                    ELSE checked.reg.reviewers)
    /\ invert' = inv
    /\ iters' = 0
    /\ pre' = Registry
    /\ prev' = [kind |-> ret.kind, dict |-> ret.dict, invert |-> invert,
                solved |-> is_sovled(pre)]
    /\ last' = NoLast
    /\ solves' = solves + 1
    /\ call' = [op |-> "solve", arg |-> <<inv>>, old |-> Registry, out |-> NoRet]
    /\ UNCHANGED <<cmp, given>>

\* one iteration of the while loop
LoopStep ==
    /\ pc = "loop"
    /\ Unmatched(wsuitors) # {}
    /\ LET out == Propose(wsuitors, wreviewers)
       IN  /\ last' = [branch |-> out.branch,
                       before |-> wsuitors \o wreviewers,
                       after |-> out.suitors \o out.reviewers]
           /\ iters' = iters + 1
           /\ IF out.raise # "none"
              THEN /\ pc' = "idle"
                   /\ ret' = [kind |-> out.raise, dict |-> <<>>]
                   /\ wsuitors' = <<>>
                   /\ wreviewers' = <<>>
              ELSE /\ pc' = "loop"
                   /\ ret' = ret
                   /\ wsuitors' = out.suitors
                   /\ wreviewers' = out.reviewers
    /\ UNCHANGED <<suitors, reviewers, cmp, invert, given, pre, prev, solves,
                   call>>

\* the loop has ended: the partners are copied back (lines 203-206) and
\* _sol_dict() is returned (line 208)
SolveEnd ==
    /\ pc = "loop"
    /\ Unmatched(wsuitors) = {}
    /\ LET reg == [suitors |-> Commit(suitors, wsuitors),
                   reviewers |-> Commit(reviewers, wreviewers)]
       IN  /\ suitors' = reg.suitors
           /\ reviewers' = reg.reviewers
           /\ ret' = IF is_sovled(reg)
                     THEN [kind |-> "return", dict |-> sol_dict(reg)]
                     ELSE [kind |-> "ValueError", dict |-> <<>>]
    /\ pc' = "idle"
    /\ wsuitors' = <<>>
    /\ wreviewers' = <<>>
    /\ UNCHANGED <<cmp, invert, iters, given, pre, prev, last, solves, call>>

Next ==
    \/ \E inv \in BOOLEAN : SolveBegin(inv)
    \/ LoopStep
    \/ SolveEnd

Spec == Init /\ [][Next]_vars

\* ------------------------------------------------ the docstring example
\* A third specification: the game of the class docstring, constructed
\* from its two dictionaries in every order in which they may iterate and
\* with the players at every address, and solved by one call of solve().

\* the while loop of solve (lines 189-201) run to its end from the working
\* collections ws and wr: the exception that ends it ("none" when no
\* proposer is left unmatched), the collections it leaves, the iterations
\* made after the n before it, and the last of them
RECURSIVE RunLoop(_, _, _, _)
RunLoop(ws, wr, n, lst) ==
    IF Unmatched(ws) = {}
    THEN [raise |-> "none", suitors |-> ws, reviewers |-> wr, iters |-> n,
          last |-> lst]
    ELSE LET out == Propose(ws, wr)
             now == [branch |-> out.branch, before |-> ws \o wr,
                     after |-> out.suitors \o out.reviewers]
         IN  IF out.raise # "none"
             THEN [raise |-> out.raise, suitors |-> <<>>, reviewers |-> <<>>,
                   iters |-> n + 1, last |-> now]
             ELSE RunLoop(out.suitors, out.reviewers, n + 1, now)

\* only the first call of solve is taken on the example
MaxExampleSolves == 1

\* the orders in which the dictionary of the docstring with the keys
\* written in the order keys iterates: any order under Python 2, where it
\* is the hash order and changes with the hash seed; the written order
\* under Python 3
ExampleOrders(keys, mode) ==
    IF mode = "address" THEN KeyOrders(keys, Len(keys)) ELSE {keys}

InitExample ==
    \E objs \in {OwnLists(SuitorKeys, ReviewerKeys)},
       mode \in {"address", "unorderable"},
       saddr \in PermSeqs(1..4), raddr \in PermSeqs(1..4) :
        \E skeys \in ExampleOrders(SuitorKeys, mode),
           rkeys \in ExampleOrders(ReviewerKeys, mode) :
            InitWith(dict_game(skeys, suitr_pref, rkeys, reviewr_pref, objs,
                               saddr, raddr), mode,
                     DictsGenerator(skeys, suitr_pref, rkeys, reviewr_pref, objs))

\* solve(invert) from the call to its return or its exception (lines
\* 174-208): _is_complete(), the deep copies, the while loop, the partners
\* copied back, _sol_dict()
Solve(inv) ==
    /\ pc = "idle"
    /\ solves < MaxExampleSolves
    /\ \E checked \in {is_complete(Registry, cmp)} :
          IF checked.raise # "none"
          THEN /\ suitors' = checked.reg.suitors
               /\ reviewers' = checked.reg.reviewers
               /\ ret' = [kind |-> checked.raise, dict |-> <<>>]
               /\ iters' = 0
               /\ last' = NoLast
          ELSE \E ran \in {RunLoop(DeepCopy(IF inv THEN checked.reg.reviewers
                                                    ELSE checked.reg.suitors),
                                    DeepCopy(IF inv THEN checked.reg.suitors
                                                    ELSE checked.reg.reviewers),
                                    0, NoLast)} :
               IF ran.raise # "none"
               THEN /\ suitors' = checked.reg.suitors
                    /\ reviewers' = checked.reg.reviewers
                    /\ ret' = [kind |-> ran.raise, dict |-> <<>>]
                    /\ iters' = ran.iters
                    /\ last' = ran.last
               ELSE \E reg \in {[suitors |-> Commit(checked.reg.suitors, ran.suitors),
                                  reviewers |-> Commit(checked.reg.reviewers,
                                                       ran.reviewers)]} :
                    /\ suitors' = reg.suitors
                    /\ reviewers' = reg.reviewers
                    /\ ret' = IF is_sovled(reg)
                              THEN [kind |-> "return", dict |-> sol_dict(reg)]
                              ELSE [kind |-> "ValueError", dict |-> <<>>]
                    /\ iters' = ran.iters
                    /\ last' = ran.last
    /\ pc' = "idle"
    /\ invert' = inv
    /\ wsuitors' = <<>>
    /\ wreviewers' = <<>>
    /\ pre' = Registry
    /\ prev' = [kind |-> ret.kind, dict |-> ret.dict, invert |-> invert,
                solved |-> is_sovled(pre)]
    /\ solves' = solves + 1
    /\ call' = [op |-> "solve", arg |-> <<inv>>, old |-> Registry, out |-> NoRet]
    /\ UNCHANGED <<cmp, given>>

NextExample == Solve(FALSE)

SpecExample == InitExample /\ [][NextExample]_vars

\* ------------------------------------------- the registry built by calls
\* A second specification: the object does not exist at first (pc = "new"),
\* the caller constructs it and then adds agents, assigns preference
\* lists, asks for the result mapping and solves.

\* the lists given to the agents of keys over the opposite side opp: the
\* opposite side in ascending order, in descending order, the placeholders
Reverse(list) == [i \in 1..Len(list) |-> list[Len(list) + 1 - i]]
ApiChoices(opp) == {opp, Reverse(opp), [i \in 1..Len(opp) |-> Placeholder]}
ApiDicts(keys, opp) == [Range(keys) -> ApiChoices(opp)]

\* the new object lies at an arbitrary address: rank addr among the
\* addresses of the players of its side, which keep their order
MakeRoom(players, addr) ==
    [i \in 1..Len(players) |->
        [players[i] EXCEPT !.addr = IF @ >= addr THEN @ + 1 ELSE @]]

NamesOf(players) == [i \in 1..Len(players) |-> players[i].name]

InitApi ==
    /\ suitors = <<>>
    /\ reviewers = <<>>
    /\ given = EmptyRegistry
    /\ pre = EmptyRegistry
    /\ cmp \in {"address", "unorderable"}
    /\ pc = "new"
    /\ invert = FALSE
    /\ wsuitors = <<>>
    /\ wreviewers = <<>>
    /\ ret = NoRet
    /\ iters = 0
    /\ prev = NoPrev
    /\ last = NoLast
    /\ solves = 0
    /\ call = [op |-> "none", arg |-> <<>>, old |-> EmptyRegistry, out |-> NoRet]

\* MatchingGame(generator): when __init__ raises there is no object, and
\* nothing can be called (pc = "failed")
New(generator, saddr, raddr) ==
    /\ pc = "new"
    /\ LET out == init(generator, saddr, raddr)
       IN  /\ suitors' = out.reg.suitors
           /\ reviewers' = out.reg.reviewers
           /\ given' = out.reg
           /\ pre' = out.reg
           /\ ret' = [kind |-> out.raise, dict |-> <<>>]
           /\ pc' = IF out.raise = "none" THEN "idle" ELSE "failed"
    /\ call' = [op |-> "init", arg |-> generator, old |-> EmptyRegistry,
                out |-> NoRet]
    /\ UNCHANGED <<cmp, invert, wsuitors, wreviewers, iters, prev, last, solves>>

NewInteger ==
    \E n \in 0..MaxN : \E saddr \in PermSeqs(1..n), raddr \in PermSeqs(1..n) :
        New(IntegerGenerator(n), saddr, raddr)

NewDicts ==
    \E ns \in 0..MaxNew, nr \in 0..MaxNew :
        \E skeys \in KeyOrders(SuitorKeys, ns), rkeys \in KeyOrders(ReviewerKeys, nr) :
            \E sdict \in ApiDicts(skeys, rkeys), rdict \in ApiDicts(rkeys, skeys),
               saddr \in PermSeqs(1..ns), raddr \in PermSeqs(1..nr) :
                \E objs \in Sharings(GivenLists(skeys, sdict, rkeys, rdict)) :
                    New(DictsGenerator(skeys, sdict, rkeys, rdict, objs), saddr, raddr)

\* ret, invert, iters, pre, prev and last describe the solves made since
\* the caller last changed the registry: a call that changes it clears them
Forget ==
    /\ ret' = NoRet
    /\ invert' = FALSE
    /\ iters' = 0
    /\ pre' = EmptyRegistry
    /\ prev' = NoPrev
    /\ last' = NoLast

\* add_suitor() when arg = <<>>, add_suitor(name) when arg = <<name>>; the
\* caller gives a name that is not in use
AddSuitor(arg, addr) ==
    /\ pc = "idle"
    /\ Len(suitors) < MaxN
    /\ arg # <<>> => arg[1] \notin Range(NamesOf(suitors))
    /\ LET name == IF arg = <<>> THEN DefaultName(suitors) ELSE arg[1]
           reg == add_suitor([suitors |-> MakeRoom(suitors, addr),
                              reviewers |-> reviewers], name, addr)
       IN  /\ suitors' = reg.suitors
           /\ reviewers' = reg.reviewers
    /\ call' = [op |-> "add_suitor", arg |-> arg,
                old |-> [suitors |-> MakeRoom(suitors, addr),
                         reviewers |-> reviewers],
                out |-> NoRet]
    /\ Forget
    /\ UNCHANGED <<cmp, pc, wsuitors, wreviewers, given, solves>>

AddReviewer(arg, addr) ==
    /\ pc = "idle"
    /\ Len(reviewers) < MaxN
    /\ arg # <<>> => arg[1] \notin Range(NamesOf(reviewers))
    /\ LET name == IF arg = <<>> THEN DefaultName(reviewers) ELSE arg[1]
           reg == add_reviewer([suitors |-> suitors,
                                reviewers |-> MakeRoom(reviewers, addr)],
                               name, addr)
       IN  /\ suitors' = reg.suitors
           /\ reviewers' = reg.reviewers
    /\ call' = [op |-> "add_reviewer", arg |-> arg,
                old |-> [suitors |-> suitors,
                         reviewers |-> MakeRoom(reviewers, addr)],
                out |-> NoRet]
    /\ Forget
    /\ UNCHANGED <<cmp, pc, wsuitors, wreviewers, given, solves>>

\* some preference list of the registry holds a placeholder
Unset(reg) ==
    \/ \E i \in 1..Len(reg.suitors) : Placeholder \in Range(reg.suitors[i].pref)
    \/ \E k \in 1..Len(reg.reviewers) : Placeholder \in Range(reg.reviewers[k].pref)

\* the caller of a registry with unset lists gives every agent a
\* preference list (player.pref = l): the names of the opposite side,
\* ascending or descending.  The caller makes a list for each player, or
\* one list for the suitors and one for the reviewers and gives every
\* player of a side the same list object
Ordered(names, order) ==
    IF order = "ascending" THEN SortFrom(<<>>, names)
    ELSE Reverse(SortFrom(<<>>, names))
SetPrefs(order) ==
    /\ pc = "idle"
    /\ Unset(Registry)
    /\ \E objs \in {OwnLists(NamesOf(suitors), NamesOf(reviewers)),
                     SideLists(NamesOf(suitors), NamesOf(reviewers))} :
          /\ suitors' = [i \in 1..Len(suitors) |->
                 [suitors[i] EXCEPT
                     !.pref = Ordered(NamesOf(reviewers), order),
                     !.lid = objs[ListId("suitor", suitors[i].name)]]]
          /\ reviewers' = [k \in 1..Len(reviewers) |->
                 [reviewers[k] EXCEPT
                     !.pref = Ordered(NamesOf(suitors), order),
                     !.lid = objs[ListId("reviewer", reviewers[k].name)]]]
    /\ call' = [op |-> "set_pref", arg |-> <<order>>, old |-> Registry,
                out |-> NoRet]
    /\ Forget
    /\ UNCHANGED <<cmp, pc, wsuitors, wreviewers, given, solves>>

\* _sol_dict() called by the caller: _is_sovled() raises ValueError, or the
\* mapping is returned
SolDict ==
    /\ pc = "idle"
    /\ call' = [op |-> "_sol_dict", arg |-> <<>>, old |-> Registry,
                out |-> IF is_sovled(Registry)
                        THEN [kind |-> "return", dict |-> sol_dict(Registry)]
                        ELSE [kind |-> "ValueError", dict |-> <<>>]]
    /\ UNCHANGED <<suitors, reviewers, cmp, pc, invert, wsuitors, wreviewers,
                   ret, iters, given, pre, prev, last, solves>>

\* bi_partite(): _is_sovled(), then BipartiteGraph(self._sol_dict()); the
\* graph is held as the dictionary it is built from
BiPartite ==
    /\ pc = "idle"
    /\ call' = [op |-> "bi_partite", arg |-> <<>>, old |-> Registry,
                out |-> IF is_sovled(Registry)
                        THEN [kind |-> "return", dict |-> sol_dict(Registry)]
                        ELSE [kind |-> "ValueError", dict |-> <<>>]]
    /\ UNCHANGED <<suitors, reviewers, cmp, pc, invert, wsuitors, wreviewers,
                   ret, iters, given, pre, prev, last, solves>>

NextApi ==
    \/ NewInteger
    \/ NewDicts
    \/ \E arg \in {<<>>, <<I>>}, addr \in 1..(Len(suitors) + 1) :
          AddSuitor(arg, addr)
    \/ \E arg \in {<<>>, <<B>>}, addr \in 1..(Len(reviewers) + 1) :
          AddReviewer(arg, addr)
    \/ \E order \in {"ascending", "descending"} : SetPrefs(order)
    \/ SolDict
    \/ BiPartite
    \/ \E inv \in BOOLEAN : SolveBegin(inv)
    \/ LoopStep
    \/ SolveEnd

SpecApi == InitApi /\ [][NextApi]_vars

\* ================================================================ claims
Names(players) == {players[i].name : i \in 1..Len(players)}

\* the player called name in a list of players with distinct names
Named(players, name) ==
    players[CHOOSE i \in 1..Len(players) : players[i].name = name]

\* list is a strict order of the whole set S
StrictOrderOf(list, S) == Len(list) = Cardinality(S) /\ Range(list) = S

\* the registry reg is complete: equal side sizes, every preference list a
\* strict order of the whole opposite side
Complete(reg) ==
    /\ Len(reg.suitors) = Len(reg.reviewers)
    /\ \A i \in 1..Len(reg.suitors) :
          StrictOrderOf(reg.suitors[i].pref, Names(reg.reviewers))
    /\ \A k \in 1..Len(reg.reviewers) :
          StrictOrderOf(reg.reviewers[k].pref, Names(reg.suitors))

\* no agent of reg has a partner
Unsolved(reg) ==
    /\ \A i \in 1..Len(reg.suitors) : reg.suitors[i].partner = Unassigned
    /\ \A k \in 1..Len(reg.reviewers) : reg.reviewers[k].partner = Unassigned

\* the last solve has returned a mapping
Returned == pc = "idle" /\ ret.kind = "return"

\* the mapping a dict stands for
Items(d) == Range(d)
HasKey(d, name) == \E i \in 1..Len(d) : d[i].key.name = name
Value(d, name) == d[CHOOSE i \in 1..Len(d) : d[i].key.name = name].val

\* list ranks x strictly above y
Prefers(list, x, y) ==
    Index(list, x) > 0 /\ Index(list, y) > 0 /\ Index(list, x) < Index(list, y)

\* suitor s and reviewer r block the matching partnerOf (name -> name)
\* under the preference lists of registry reg
Blocks(reg, partnerOf, s, r) ==
    /\ Prefers(Named(reg.suitors, s).pref, r, partnerOf[s])
    /\ Prefers(Named(reg.reviewers, r).pref, s, partnerOf[r])

StableFor(reg, partnerOf) ==
    \A s \in Names(reg.suitors), r \in Names(reg.reviewers) :
        ~Blocks(reg, partnerOf, s, r)

\* the matching a returned dict stands for, as a function name -> name
PartnerOf(d) == [n \in {d[i].key.name : i \in 1..Len(d)} |-> Value(d, n)[1].name]

\* C1 (stability): whenever solve has returned on a registry built from
\* complete preference lists, no suitor S and reviewer R' exist such that,
\* in the preference lists the caller supplied, S ranks R' above its partner
\* in the returned mapping and R' ranks S above its own.
C1_Stability ==
    (Returned /\ Complete(given)) =>
        \A s \in Names(given.suitors), r \in Names(given.reviewers) :
            (HasKey(ret.dict, s) /\ HasKey(ret.dict, r))
                => ~Blocks(given, PartnerOf(ret.dict), s, r)

\* C2 (completeness of output): whenever solve has returned on a registry
\* of n suitors and n reviewers built from complete preference lists, for
\* either value of invert, the mapping has exactly 2n keys, one per agent,
\* each mapped to a one-element sequence holding a partner from the
\* opposite side, and partners are symmetric.
C2_CompleteOutput ==
    (Returned /\ Complete(given)) =>
        /\ Len(ret.dict) = 2 * Len(suitors)
        /\ \A i \in 1..Len(suitors) : HasKey(ret.dict, suitors[i].name)
        /\ \A k \in 1..Len(reviewers) : HasKey(ret.dict, reviewers[k].name)
        /\ \A i \in 1..Len(ret.dict) :
              /\ Len(ret.dict[i].val) = 1
              /\ ret.dict[i].val[1] # Unassigned
              /\ ret.dict[i].key.type = "suitor"
                    => /\ ret.dict[i].val[1].type = "reviewer"
                       /\ ret.dict[i].val[1].name \in Names(reviewers)
              /\ ret.dict[i].key.type = "reviewer"
                    => /\ ret.dict[i].val[1].type = "suitor"
                       /\ ret.dict[i].val[1].name \in Names(suitors)
              /\ HasKey(ret.dict, ret.dict[i].val[1].name)
              /\ Value(ret.dict, ret.dict[i].val[1].name)[1].name
                    = ret.dict[i].key.name

\* --------------------------------------------------------------- C3
\* the registry was built from the dictionaries of the class docstring
ExampleGiven ==
    /\ Names(given.suitors) = {J, K, L, M}
    /\ \A i \in 1..Len(given.suitors) :
          given.suitors[i].pref = suitr_pref[given.suitors[i].name]
    /\ \A k \in 1..Len(given.reviewers) :
          given.reviewers[k].pref = reviewr_pref[given.reviewers[k].name]

\* the pairing J-A, K-B, L-C, M-D
ExamplePairing ==
    (J :> A) @@ (K :> B) @@ (L :> C) @@ (M :> D)
    @@ (A :> J) @@ (B :> K) @@ (C :> L) @@ (D :> M)

\* the first solve on the example registry, called with invert=false, has
\* returned
ExampleSolved == ExampleGiven /\ solves = 1 /\ ~invert /\ Returned

\* C3 as stated: on the 4x4 example, solve() with invert=false returns
\* exactly the pairing J-A, K-B, L-C, M-D, and that pairing is a stable
\* matching for the example's preference lists.
C3_ExampleStable ==
    ExampleSolved =>
        /\ PartnerOf(ret.dict) = ExamplePairing
        /\ StableFor(given, ExamplePairing)

\* --------------------------------------------------------------- C4
\* the perfect matchings of registry reg, as functions name -> name
Matchings(reg) ==
    LET S == Names(reg.suitors)
        R == Names(reg.reviewers)
    IN  {m \in [S \cup R -> S \cup R] :
            /\ \A x \in S : m[x] \in R
            /\ \A y \in R : m[y] \in S /\ m[m[y]] = y
            /\ \A x \in S : m[m[x]] = x}

StableMatchings(reg) == {m \in Matchings(reg) : StableFor(reg, m)}

\* the first solve on a complete registry, called with invert=false, has
\* returned
FirstSolved == Complete(given) /\ solves = 1 /\ ~invert /\ Returned

\* C4 (suitor-optimality): after a successful solve(invert=false), for every
\* stable matching M' of the supplied preference lists and every suitor S,
\* S ranks its computed partner at least as high as its partner in M'.
C4_SuitorOptimal ==
    FirstSolved =>
        \A m \in StableMatchings(given) : \A x \in Names(given.suitors) :
            /\ HasKey(ret.dict, x)
            /\ ~Prefers(Named(given.suitors, x).pref, m[x], PartnerOf(ret.dict)[x])

\* --------------------------------------------------------------- C5
\* C5 (termination bound): on a complete registry with n suitors and n
\* reviewers the proposal loop of one solve executes at most n*n
\* iterations.
C5_IterationBound ==
    Complete(Registry) => iters <= Len(suitors) * Len(suitors)

\* the bound is reached: a solve of two suitors on a complete registry has
\* returned after 4 iterations
C5_Witness ==
    /\ Complete(Registry) /\ Returned /\ Len(suitors) = 2
    /\ iters = Len(suitors) * Len(suitors)

\* --------------------------------------------------------------- C6
\* C6 (termination): on a complete registry in which no agent has a partner
\* yet, solve ends by returning a mapping, without raising.
C6_Returns ==
    (pc = "idle" /\ solves >= 1 /\ Complete(pre) /\ Unsolved(pre))
        => ret.kind = "return"

\* --------------------------------------------------------------- C7
\* C7 (idempotence): on an already-solved registry (built from complete
\* preference lists and not modified between the calls), two consecutive
\* solve calls with the same invert value return the same mapping.
C7_Idempotent ==
    (/\ Complete(given) /\ Returned
     /\ prev.kind = "return" /\ prev.solved /\ invert = prev.invert)
        => Items(ret.dict) = Items(prev.dict)

\* --------------------------------------------------------------- C8
SameListsAndOrder(players, before) ==
    /\ Len(players) = Len(before)
    /\ \A i \in 1..Len(players) :
          /\ players[i].name = before[i].name
          /\ players[i].pref = before[i].pref

\* C8 (frame): after any solve call (here: on a registry built from
\* complete preference lists) every agent's preference list has the same
\* elements in the same order as before the call, and the suitors and
\* reviewers collections keep their order.
C8_PrefsUntouched ==
    (pc = "idle" /\ Complete(given)) =>
        /\ SameListsAndOrder(suitors, pre.suitors)
        /\ SameListsAndOrder(reviewers, pre.reviewers)

\* --------------------------------------------------------------- C9
\* C9 (incomplete preferences rejected): with equal side sizes and some
\* preference list that is not a strict order of the opposite side, solve
\* fails with ValueError before any proposal.
C9_IncompleteRejected ==
    (solves >= 1 /\ Len(pre.suitors) = Len(pre.reviewers) /\ ~Complete(pre))
        => (pc = "idle" /\ ret.kind = "ValueError" /\ iters = 0)

\* --------------------------------------------------------------- C10
\* C10 (unequal sides rejected): when the number of suitors differs from
\* the number of reviewers, solve fails with ValueError and every agent's
\* partner and preference list is as before the call.
C10_UnequalRejected ==
    (solves >= 1 /\ Len(pre.suitors) # Len(pre.reviewers))
        => /\ pc = "idle"
           /\ ret.kind = "ValueError"
           /\ iters = 0
           /\ Registry = pre

\* solve was called on two suitors and one reviewer whose list is not in
\* ascending order
C10_Witness ==
    /\ solves >= 1
    /\ Len(suitors) = 2 /\ Len(reviewers) = 1
    /\ reviewers[1].pref = <<K, J>>
    /\ ret.kind = "ValueError"

\* every preference list of players is the placeholder list of length n
AllPlaceholders(players, n) ==
    \A i \in 1..Len(players) : players[i].pref = [k \in 1..n |-> Placeholder]

\* C11: MatchingGame(n) for an integer n >= 0 completes without error:
\* the object exists and can be called (a solve can follow), and it holds
\* exactly n suitors and n reviewers, each with a placeholder list.
C11_IntegerConstruction ==
    (call.op = "init" /\ call.arg.type = "Integer") =>
        /\ ret.kind = "none"
        /\ pc = "idle"
        /\ Len(suitors) = call.arg.n
        /\ Len(reviewers) = call.arg.n
        /\ AllPlaceholders(suitors, call.arg.n)
        /\ AllPlaceholders(reviewers, call.arg.n)

\* some agent of the registry reg has no partner
SomeUnassigned(reg) ==
    \/ \E i \in 1..Len(reg.suitors) : reg.suitors[i].partner = Unassigned
    \/ \E k \in 1..Len(reg.reviewers) : reg.reviewers[k].partner = Unassigned

\* the last call asked for the result mapping
Asked == call.op \in {"_sol_dict", "bi_partite"}

\* C12: _sol_dict() or bi_partite() on a registry in which some agent has
\* no partner fails with ValueError; the call runs no solve and changes no
\* agent; a mapping that is returned holds no unassigned partner.
C12_SolvedCheck ==
    Asked =>
        /\ SomeUnassigned(call.old) => call.out.kind = "ValueError"
        /\ Registry = call.old
        /\ pc = "idle" /\ wsuitors = <<>> /\ wreviewers = <<>>
        /\ call.out.kind = "return" =>
              \A item \in Items(call.out.dict) : item.val # <<Unassigned>>

\* the mapping was asked for when the suitors all had a partner and a
\* reviewer had none, and the call failed
C12_Witness ==
    /\ Asked
    /\ Len(call.old.suitors) > 0
    /\ \A i \in 1..Len(call.old.suitors) :
          call.old.suitors[i].partner # Unassigned
    /\ \E k \in 1..Len(call.old.reviewers) :
          call.old.reviewers[k].partner = Unassigned
    /\ call.out.kind = "ValueError"

\* C13: MatchingGame([suitor_dict, reviewer_dict]) creates exactly one
\* agent per key on each side, and when it has finished the preference list
\* of every agent is the list its dictionary gives for its name, in that
\* order: no list is left as, or reset to, placeholders by the adds.
C13_BulkConstruction ==
    (call.op = "init" /\ call.arg.type = "dicts") =>
        /\ ret.kind = "none" /\ pc = "idle"
        /\ NamesOf(suitors) = call.arg.skeys
        /\ NamesOf(reviewers) = call.arg.rkeys
        /\ \A i \in 1..Len(suitors) :
              suitors[i].pref = call.arg.sdict[suitors[i].name]
        /\ \A k \in 1..Len(reviewers) :
              reviewers[k].pref = call.arg.rdict[reviewers[k].name]

\* a registry was constructed from two dictionaries that give a suitor a
\* list of two names in descending order and a reviewer a list naming agents
C13_Witness ==
    /\ call.op = "init" /\ call.arg.type = "dicts"
    /\ \E i \in 1..Len(suitors) :
          /\ Len(suitors[i].pref) = 2
          /\ Placeholder \notin Range(suitors[i].pref)
          /\ suitors[i].pref[1] > suitors[i].pref[2]
    /\ \E k \in 1..Len(reviewers) :
          Len(reviewers[k].pref) > 0 /\ Placeholder \notin Range(reviewers[k].pref)

\* C14: when solve(invert=True) has returned on a complete registry in
\* which no agent had a partner, every original agent holds the partner the
\* loop computed for its own working copy (the reviewers are the first
\* working list, the suitors the second), so the partner of every suitor
\* is a reviewer and the partner of every reviewer is a suitor.
C14_InvertedCommit ==
    (Returned /\ invert /\ Complete(pre) /\ Unsolved(pre)) =>
        /\ \A i \in 1..Len(suitors) : suitors[i].partner.type = "reviewer"
        /\ \A k \in 1..Len(reviewers) : reviewers[k].partner.type = "suitor"

\* C15: when a solve reaches its loop, before the first iteration, every
\* working copy is unassigned, whatever earlier solves left in the
\* registry (stated for the solves called on complete lists).
C15_FreshStart ==
    (pc = "loop" /\ iters = 0 /\ Complete(pre)) =>
        /\ \A i \in 1..Len(wsuitors) : wsuitors[i].partner = Unassigned
        /\ \A k \in 1..Len(wreviewers) : wreviewers[k].partner = Unassigned

\* the last solve call has failed
Failed == pc = "idle" /\ call.op = "solve" /\ ret.kind \notin {"none", "return"}

\* C16: when a solve call has raised an error, at the completeness check,
\* in the loop or at the final solved check, every agent of the registry
\* has the partner and the preference list it had when solve was called
\* (stated for the solves called on complete lists).
C16_NoPartialMutation ==
    (Failed /\ Complete(pre)) =>
        /\ \A i \in 1..Len(suitors) :
              /\ suitors[i].partner = Named(pre.suitors, suitors[i].name).partner
              /\ suitors[i].pref = Named(pre.suitors, suitors[i].name).pref
        /\ \A k \in 1..Len(reviewers) :
              /\ reviewers[k].partner = Named(pre.reviewers, reviewers[k].name).partner
              /\ reviewers[k].pref = Named(pre.reviewers, reviewers[k].name).pref

\* every preference list of reg is as long as the opposite side
LengthsAgree(reg) ==
    /\ \A i \in 1..Len(reg.suitors) :
          Len(reg.suitors[i].pref) = Len(reg.reviewers)
    /\ \A k \in 1..Len(reg.reviewers) :
          Len(reg.reviewers[k].pref) = Len(reg.suitors)

\* grown is the side was with one player appended, called by the argument
\* arg of the call or, without one, by the size of was; the players of was
\* keep name, list and partner
Grown(was, grown, arg) ==
    /\ Len(grown) = Len(was) + 1
    /\ grown[Len(grown)].name = (IF arg = <<>> THEN Len(was) ELSE arg[1])
    /\ \A i \in 1..Len(was) :
          /\ grown[i].name = was[i].name
          /\ grown[i].pref = was[i].pref
          /\ grown[i].partner = was[i].partner

\* now is the side was, every list reset to n placeholders, names and
\* partners kept
Reset(was, now, n) ==
    /\ Len(now) = Len(was)
    /\ \A k \in 1..Len(was) :
          /\ now[k].name = was[k].name
          /\ now[k].partner = was[k].partner
          /\ now[k].pref = [i \in 1..n |-> Placeholder]

\* C17: add_suitor appends one suitor, named by the size the side had when
\* no name is given, resets the list of every reviewer to placeholders, one
\* per suitor of the grown side, and leaves the lists of the suitors that
\* existed and every partner unchanged; add_reviewer symmetrically; when
\* every list was as long as the opposite side before, it is so after.
C17_AddFrame ==
    /\ call.op = "add_suitor" =>
          /\ Grown(call.old.suitors, suitors, call.arg)
          /\ Reset(call.old.reviewers, reviewers, Len(suitors))
          /\ LengthsAgree(call.old) => LengthsAgree(Registry)
    /\ call.op = "add_reviewer" =>
          /\ Grown(call.old.reviewers, reviewers, call.arg)
          /\ Reset(call.old.suitors, suitors, Len(reviewers))
          /\ LengthsAgree(call.old) => LengthsAgree(Registry)

\* a suitor was added without a name to a registry whose reviewer had a
\* partner and a list of names
C17_Witness ==
    /\ call.op = "add_suitor" /\ call.arg = <<>>
    /\ LengthsAgree(call.old)
    /\ \E k \in 1..Len(call.old.reviewers) :
          /\ call.old.reviewers[k].partner # Unassigned
          /\ Len(call.old.reviewers[k].pref) > 0
          /\ Placeholder \notin Range(call.old.reviewers[k].pref)

\* the list holds x at an earlier position than y
Before(list, x, y) ==
    \E i, k \in 1..Len(list) : i < k /\ list[i] = x /\ list[k] = y

\* the solve that is running, or ran last, was called on a complete registry
\* in which no agent had a partner
FirstSolve == call.op = "solve" /\ Complete(pre) /\ Unsolved(pre)

\* the targets (the second working list) before and after the last
\* iteration of the loop
TargetsBefore == SubSeq(last.before, Len(last.before) \div 2 + 1, Len(last.before))
TargetsAfter == SubSeq(last.after, Len(last.after) \div 2 + 1, Len(last.after))

\* C18: in the loop of a solve called on a complete registry in which no
\* agent has a partner, an iteration leaves a target that had a partner
\* with a partner, and when it is another one, the target's list (the
\* list it holds in the loop) ranks the new partner strictly before the
\* old one.
C18_TargetMonotone ==
    (FirstSolve /\ last.branch # "none") =>
        \A k \in 1..Len(TargetsBefore) :
            TargetsBefore[k].partner # Unassigned =>
                /\ TargetsAfter[k].partner # Unassigned
                /\ TargetsAfter[k].partner # TargetsBefore[k].partner =>
                      Before(TargetsBefore[k].pref, TargetsAfter[k].partner.name,
                             TargetsBefore[k].partner.name)

\* an iteration has given a target that had a partner another partner
C18_Witness ==
    /\ FirstSolve /\ last.branch = "bump"
    /\ \E k \in 1..Len(TargetsBefore) :
          /\ TargetsBefore[k].partner # Unassigned
          /\ TargetsAfter[k].partner # Unassigned
          /\ TargetsAfter[k].partner # TargetsBefore[k].partner

\* C19: whenever the loop of a solve called on a complete registry in which
\* no agent has a partner tests its condition, the working lists are a
\* partial matching: the partner of proposer s is target r exactly when the
\* partner of r is s, and no two proposers have the same partner.
C19_PartialMatching ==
    (FirstSolve /\ pc = "loop") =>
        /\ \A i \in 1..Len(wsuitors), k \in 1..Len(wreviewers) :
              (wsuitors[i].partner = Ref(wreviewers[k]))
                  <=> (wreviewers[k].partner = Ref(wsuitors[i]))
        /\ \A i \in 1..Len(wsuitors) :
              wsuitors[i].partner # Unassigned =>
                  \E k \in 1..Len(wreviewers) :
                      wsuitors[i].partner = Ref(wreviewers[k])
        /\ \A i, h \in 1..Len(wsuitors) :
              (i # h /\ wsuitors[i].partner # Unassigned) =>
                  wsuitors[i].partner # wsuitors[h].partner

\* the loop tests its condition after a bump: a proposer holds a target
\* and the proposer it displaced holds none
C19_Witness ==
    /\ FirstSolve /\ pc = "loop" /\ last.branch = "bump"
    /\ \E i \in 1..Len(wsuitors) : wsuitors[i].partner # Unassigned
    /\ \E i \in 1..Len(wsuitors) : wsuitors[i].partner = Unassigned

\* C20: whenever the loop of a solve called on a complete registry selects
\* a proposer without partner, the list the proposer still holds is not
\* empty and its first entry is the name of a player of the target list.
C20_NoExhaustedProposer ==
    (pc = "loop" /\ Complete(pre) /\ Unmatched(wsuitors) # {}) =>
        LET si == CHOOSE i \in Unmatched(wsuitors) :
                      \A h \in Unmatched(wsuitors) : i <= h
        IN  /\ wsuitors[si].pref # <<>>
            /\ \E k \in 1..Len(wreviewers) :
                  wreviewers[k].name = wsuitors[si].pref[1]
====
